---- MODULE Spec2Model ----
(***************************************************************************)
(* The GraphQL explorer of src/src/App.js: the transport-dispatching       *)
(* fetcher (lines 15-85) and the cursor-to-operation lookup of             *)
(* App._handleInspectOperation (lines 126-167).                            *)
(*                                                                         *)
(* JavaScript strings that the code builds are sequences of tokens, so     *)
(* that concatenation is \o and the empty string is <<>>; strings that are *)
(* only compared are TLA+ strings.                                         *)
(***************************************************************************)
EXTENDS Integers, Sequences, FiniteSets, TLC

VARIABLES
    params,      \* the argument of the fetcher call under observation
    pc,          \* where that call is: idle, threw, subscribable, fetching, ...
    fetches,     \* fetch() calls that call has made
    settled,     \* times the promise that call returned has settled
    result,      \* what the call threw, or what its promise settled with
    body,        \* the text response.text() gave
    subs,        \* the subscriptions made through subscribe(...), in order
    registered,  \* the ones the shared client still delivers to
    disposed,    \* whether the shared client has been disposed
    stateQuery,  \* App.state.query, as the document parse() makes of it
    inspected    \* what the last _handleInspectOperation did

vars == <<params, pc, fetches, settled, result, body, subs, registered,
          disposed, stateQuery, inspected>>

dispatchVars == <<params, pc, fetches, settled, result, body>>
streamVars == <<subs, registered, disposed>>
resolverVars == <<stateQuery, inspected>>

----------------------------------------------------------------------------
(* Bounds *)

MaxDefs == 2          \* definitions in one document
MaxSubs == 2          \* subscribe(...) calls
MaxEvents == 4        \* events the channel delivers, over all subscriptions
MaxUnsubscribe == 2   \* unsubscribe() calls, over all handles
MaxPos == 3           \* largest character offset of the resolver's documents

----------------------------------------------------------------------------
(* Documents and the graphql functions the fetcher calls *)

NULL == "null"
NoName == "<anonymous>"
OperationTypes == {"query", "mutation", "subscription"}
Names == {"A", "B"}

\* A document text is a sequence of chunks, each the text of one top-level
\* definition or a stray "}" that no grammar rule accepts.
Chunks ==
    [kw : OperationTypes, name : Names \cup {NoName}]
        \cup {[kw |-> "fragment", name |-> "F"], [kw |-> "}", name |-> NoName]}

RECURSIVE SeqsUpTo(_, _)
SeqsUpTo(S, n) ==
    IF n = 0 THEN {<<>>}
    ELSE LET shorter == SeqsUpTo(S, n - 1)
         IN shorter \cup {Append(s, x) : s \in {t \in shorter : Len(t) = n - 1}, x \in S}

Queries == SeqsUpTo(Chunks, MaxDefs)
OperationNames == Names \cup {NULL}
FetcherParams == [query : Queries, operationName : OperationNames]
NoParams == [query |-> <<>>, operationName |-> NULL]

DefinitionOf(chunk) ==
    IF chunk.kw = "fragment"
    THEN [kind |-> "FragmentDefinition", operation |-> "none", name |-> chunk.name]
    ELSE [kind |-> "OperationDefinition", operation |-> chunk.kw, name |-> chunk.name]

\* parse(query): a syntax error is thrown for the empty text and for a text
\* with a chunk that is no definition; otherwise the document's definitions.
parse(query) ==
    IF query = <<>> \/ \E i \in 1..Len(query) : query[i].kw = "}"
    THEN [threw |-> TRUE, definitions |-> <<>>]
    ELSE [threw |-> FALSE,
          definitions |-> [i \in 1..Len(query) |-> DefinitionOf(query[i])]]

NoOperation == [kind |-> "null", operation |-> "none", name |-> NoName]

\* getOperationAST's loop over documentAST.definitions, from definition i on,
\* with `operation` the one found so far.
RECURSIVE OperationScan(_, _, _, _)
OperationScan(definitions, i, operationName, operation) ==
    IF i > Len(definitions) THEN operation
    ELSE IF definitions[i].kind # "OperationDefinition"
         THEN OperationScan(definitions, i + 1, operationName, operation)
    ELSE IF operationName = NULL
         THEN IF operation # NoOperation
              THEN NoOperation
              ELSE OperationScan(definitions, i + 1, operationName, definitions[i])
    ELSE IF definitions[i].name = operationName
         THEN definitions[i]
         ELSE OperationScan(definitions, i + 1, operationName, operation)

getOperationAST(documentAST, operationName) ==
    OperationScan(documentAST.definitions, 1, operationName, NoOperation)

\* What isSubscription returns for the operation getOperationAST found: it
\* throws what parse threw; otherwise the value of
\* `operation && operation.operation === "subscription"`: null, true or false.
Classified(node, operation) ==
    IF node.threw THEN [threw |-> TRUE, value |-> "GraphQLError"]
    ELSE IF operation = NoOperation THEN [threw |-> FALSE, value |-> "null"]
    ELSE IF operation.operation = "subscription"
         THEN [threw |-> FALSE, value |-> "true"]
         ELSE [threw |-> FALSE, value |-> "false"]

\* isSubscription taking the first operation when no name is given.
isSubscriptionFirstOperation(p) ==
    LET node == parse(p.query)
        ops == {i \in 1..Len(node.definitions) :
                    node.definitions[i].kind = "OperationDefinition"}
    IN  IF p.operationName = NULL /\ ops # {}
        THEN Classified(node, node.definitions[CHOOSE i \in ops : \A j \in ops : i <= j])
        ELSE Classified(node, getOperationAST(node, p.operationName))

\* isSubscription looking the operation up by its name alone.
isSubscriptionByNameOnly(p) ==
    LET node == parse(p.query)
        named == {i \in 1..Len(node.definitions) :
                      /\ node.definitions[i].kind = "OperationDefinition"
                      /\ node.definitions[i].name = p.operationName}
    IN  IF named = {}
        THEN Classified(node, NoOperation)
        ELSE Classified(node, node.definitions[CHOOSE i \in named : \A j \in named : i <= j])

\* isSubscription catching what parse throws.
isSubscriptionSwallowsParseError(p) ==
    LET node == parse(p.query)
    IN  IF node.threw
        THEN [threw |-> FALSE, value |-> "false"]
        ELSE Classified(node, getOperationAST(node, p.operationName))

isSubscription(p) ==
    LET node == parse(p.query)
    IN  Classified(node, getOperationAST(node, p.operationName))

----------------------------------------------------------------------------
(* The stateless transport (lines 65-84) *)

Value(type, repr) == [type |-> type, repr |-> repr]
NoValue == Value("none", "")
SyntaxError == Value("GraphQLError", "Syntax Error")
FetchFailed == Value("TypeError", "Failed to fetch")
BodyFailed == Value("TypeError", "body stream failed")

NoBody == "<no body>"
Bodies == {"{\"data\":{\"x\":1}}", "not json", "\"not json\"", "null", ""}

\* JSON.parse on the bodies above.
JSONparse(text) ==
    CASE text = "{\"data\":{\"x\":1}}" ->
            [threw |-> FALSE, value |-> Value("object", "{data:{x:1}}")]
      [] text = "\"not json\"" ->
            [threw |-> FALSE, value |-> Value("string", "not json")]
      [] text = "null" ->
            [threw |-> FALSE, value |-> Value("null", "null")]
      [] OTHER ->
            [threw |-> TRUE, value |-> NoValue]

\* The second then-callback with a catch that returns nothing.
ParsedOrRawDropsText(responseBody) ==
    IF JSONparse(responseBody).threw
    THEN Value("undefined", "")
    ELSE JSONparse(responseBody).value

\* The second then-callback (lines 77-83): its return value.
ParsedOrRaw(responseBody) ==
    IF JSONparse(responseBody).threw
    THEN Value("string", responseBody)
    ELSE JSONparse(responseBody).value

InFlight == {"fetching", "responded", "text"}
Stateless == InFlight \cup {"resolved", "rejected"}

\* fetcher(params), lines 36-85, up to its return.
Fetcher(p) ==
    /\ pc = "idle"
    /\ params' = p
    /\ body' = NoBody
    /\ settled' = 0
    /\ LET sub == isSubscription(p)
       IN  IF sub.threw
           THEN pc' = "threw" /\ result' = SyntaxError /\ fetches' = 0
           ELSE IF sub.value = "true"
           THEN pc' = "subscribable" /\ result' = NoValue /\ fetches' = 0
           ELSE pc' = "fetching" /\ result' = NoValue /\ fetches' = 1
    /\ UNCHANGED <<streamVars, resolverVars>>

\* fetch() rejects and calls fetch() again.
FetchRejectsRetries ==
    /\ pc = "fetching"
    /\ fetches < 3
    /\ fetches' = fetches + 1
    /\ UNCHANGED <<params, pc, settled, result, body,
                   streamVars, resolverVars>>

\* fetch() rejects: both then-callbacks are skipped and the returned promise
\* rejects with fetch's error.
FetchRejects ==
    /\ pc = "fetching"
    /\ pc' = "rejected"
    /\ result' = FetchFailed
    /\ settled' = settled + 1
    /\ UNCHANGED <<params, fetches, body, streamVars, resolverVars>>

\* fetch() resolves with a response, of any status: line 75 asks for its text.
FetchResponds ==
    /\ pc = "fetching"
    /\ pc' = "responded"
    /\ UNCHANGED <<params, fetches, settled, result, body,
                   streamVars, resolverVars>>

\* response.text() rejects: the second then-callback is skipped.
TextRejects ==
    /\ pc = "responded"
    /\ pc' = "rejected"
    /\ result' = BodyFailed
    /\ settled' = settled + 1
    /\ UNCHANGED <<params, fetches, body, streamVars, resolverVars>>

\* response.text() resolves with the body.
TextResolves(responseBody) ==
    /\ pc = "responded"
    /\ pc' = "text"
    /\ body' = responseBody
    /\ UNCHANGED <<params, fetches, settled, result,
                   streamVars, resolverVars>>

\* The second then-callback runs and the returned promise resolves.
ParseBody ==
    /\ pc = "text"
    /\ pc' = "resolved"
    /\ result' = ParsedOrRaw(body)
    /\ settled' = settled + 1
    /\ UNCHANGED <<params, fetches, body, streamVars, resolverVars>>

----------------------------------------------------------------------------
(* The duplex transport (lines 16, 24-33, 39-64) *)

\* What a handler is called with: a message, nothing, or one of the three
\* shapes of failure the client reports.
Payload(type, message, code, reason, errors) ==
    [type |-> type, message |-> message, code |-> code, reason |-> reason,
     errors |-> errors]
Undefined == Payload("undefined", <<>>, 0, <<>>, <<>>)
Message(m) == Payload("ExecutionResult", <<m>>, 0, <<>>, <<>>)
NewError(message) == Payload("Error", message, 0, <<>>, <<>>)
CloseEvent(code, reason) == Payload("CloseEvent", <<>>, code, reason, <<>>)
GraphQLErrors(messages) == Payload("Array", <<>>, 0, <<>>, messages)

Messages == {"m1", "m2"}
ChannelErrors ==
    {NewError(<<"socket error">>),
     CloseEvent(1006, <<"abnormal">>),
     CloseEvent(1000, <<>>),
     GraphQLErrors(<< <<"e1">>, <<"e2">> >>)}

\* JavaScript values handed to subscribe(...).
Fn(id) == [type |-> "function", value |-> id]
Obj(fields) == [type |-> "object", value |-> fields]
typeof(v) == v.type

PositionalArgs == <<Fn("onNext"), Fn("onComplete"), Fn("onError")>>
ObjectArgs ==
    <<Obj([next |-> Fn("onNext"), complete |-> Fn("onComplete"),
           error |-> Fn("onError")])>>
ObserverArgs == {PositionalArgs, ObjectArgs}

\* getSinkFromArgs reading the callbacks as (next, error, complete).
getSinkFromArgsErrorSecond(args) ==
    IF typeof(args[1]) = "object"
    THEN args[1].value
    ELSE [next |-> args[1], complete |-> args[3], error |-> args[2]]

getSinkFromArgs(args) ==
    IF typeof(args[1]) = "object"
    THEN args[1].value
    ELSE [next |-> args[1], complete |-> args[2], error |-> args[3]]

Truthy(string) == Len(string) > 0

RECURSIVE Join(_, _)
Join(strings, separator) ==
    IF Len(strings) = 0 THEN <<>>
    ELSE IF Len(strings) = 1 THEN strings[1]
    ELSE strings[1] \o separator \o Join(Tail(strings), separator)

\* Lines 52-54: + binds tighter than ?:, so the condition is the whole
\* concatenation and the template with the code is never the result.
SocketClosedMessage(err) ==
    IF Truthy((<<"Socket closed with event ">> \o <<ToString(err.code)>>) \o err.reason)
    THEN <<": ">> \o err.reason
    ELSE <<>>

\* Lines 46-60: what the error handler passes to sink.error.
NormalizedError(err) ==
    IF err.type = "Error" THEN err
    ELSE IF err.type = "CloseEvent" THEN NewError(SocketClosedMessage(err))
    ELSE NewError(Join(err.errors, <<", ">>))

ErrorHandler == Fn("<error handler>")

\* The sink of lines 42-61 with next wired to sink.complete.
ClientSinkNextToComplete(sink) ==
    [next |-> sink.complete, complete |-> sink.complete, error |-> ErrorHandler]

\* The sink handed to subscriptionsClient.subscribe (lines 42-61).
ClientSink(sink) ==
    [next |-> sink.next, complete |-> sink.complete, error |-> ErrorHandler]

\* The call of the observer that the client's call of a handler ends in.
CallFor(sink, event) ==
    LET handler == ClientSink(sink)[event.type]
    IN  IF handler = ErrorHandler
        THEN [fn |-> sink.error.value, arg |-> NormalizedError(event.payload)]
        ELSE [fn |-> handler.value, arg |-> event.payload]

RECURSIVE TotalReceived(_)
TotalReceived(ss) ==
    IF ss = <<>> THEN 0 ELSE Len(Head(ss).received) + TotalReceived(Tail(ss))

RECURSIVE TotalUnsubscribes(_)
TotalUnsubscribes(ss) ==
    IF ss = <<>> THEN 0 ELSE Head(ss).unsubscribeCalls + TotalUnsubscribes(Tail(ss))

Deliver(s, event) ==
    subs' = [subs EXCEPT ![s].received = Append(@, event),
                         ![s].calls = Append(@, CallFor(subs[s].sink, event))]

\* subscribe(...args) on the returned Subscribable (lines 40-63): the sink is
\* normalized and the request registered with the shared client.
Subscribe(args) ==
    /\ pc = "subscribable"
    /\ Len(subs) < MaxSubs
    /\ ~disposed
    /\ subs' = Append(subs, [args |-> args, sink |-> getSinkFromArgs(args),
                             received |-> <<>>, calls |-> <<>>,
                             unsubscribeCalls |-> 0])
    /\ registered' = registered \cup {Len(subs) + 1}
    /\ UNCHANGED <<params, pc, fetches, settled, result, body, disposed,
                   resolverVars>>

\* The client receives a message for a registered request and calls the
\* sink's next with its payload (line 43).
ChannelNext(s, m) ==
    /\ s \in registered
    /\ TotalReceived(subs) < MaxEvents
    /\ Deliver(s, [type |-> "next", payload |-> Message(m)])
    /\ UNCHANGED <<dispatchVars, registered, disposed, resolverVars>>

\* The server completes a registered request: the sink's complete is called
\* (line 44) and the client drops the request.
ChannelComplete(s) ==
    /\ s \in registered
    /\ TotalReceived(subs) < MaxEvents
    /\ Deliver(s, [type |-> "complete", payload |-> Undefined])
    /\ registered' = registered \ {s}
    /\ UNCHANGED <<dispatchVars, disposed, resolverVars>>

\* The client reports a failure to a registered request's error handler
\* (lines 46-60) and drops the request.
ChannelError(s, err) ==
    /\ s \in registered
    /\ TotalReceived(subs) < MaxEvents
    /\ Deliver(s, [type |-> "error", payload |-> err])
    /\ registered' = registered \ {s}
    /\ UNCHANGED <<dispatchVars, disposed, resolverVars>>

\* unsubscribe disposing of the shared client.
UnsubscribeDisposesClient(s) ==
    /\ s \in 1..Len(subs)
    /\ TotalUnsubscribes(subs) < MaxUnsubscribe
    /\ subs' = [subs EXCEPT ![s].unsubscribeCalls = @ + 1]
    /\ registered' = {}
    /\ disposed' = TRUE
    /\ UNCHANGED <<dispatchVars, resolverVars>>

\* unsubscribe() on the handle of line 62: the client's own release of that
\* one request, which does nothing for a request it no longer holds.
Unsubscribe(s) ==
    /\ s \in 1..Len(subs)
    /\ TotalUnsubscribes(subs) < MaxUnsubscribe
    /\ subs' = [subs EXCEPT ![s].unsubscribeCalls = @ + 1]
    /\ registered' = registered \ {s}
    /\ UNCHANGED <<dispatchVars, disposed, resolverVars>>

----------------------------------------------------------------------------
(* App._handleInspectOperation (lines 126-167) *)

\* state.query is held as what parse (line 127) makes of it: a syntax error,
\* or the document's definitions with their loc. A definition has no loc
\* only when the parser is told to leave locations out; the test of line 145
\* is for that case, and the documents here include it.
NoLoc == [start |-> -1, end |-> -1]
Locs == {NoLoc} \cup {l \in [start : 0..MaxPos, end : 0..MaxPos] : l.start <= l.end}
Positions == {p \in [start : 0..MaxPos, end : 0..MaxPos] : p.start <= p.end}

LocatedDefinitions ==
    [kind : {"OperationDefinition"}, operation : {"query"}, name : {NoName}, loc : Locs]
        \cup [kind : {"FragmentDefinition"}, operation : {"none"}, name : {"F"}, loc : Locs]

BadQuery == <<[kind |-> "SyntaxError", operation |-> "none", name |-> NoName, loc |-> NoLoc]>>
EditedQueries == (SeqsUpTo(LocatedDefinitions, MaxDefs) \ {<<>>}) \cup {BadQuery}

\* DEFAULT_QUERY (lines 87-100): one query named MyQuery, after a line break.
DEFAULT_QUERY ==
    <<[kind |-> "OperationDefinition", operation |-> "query", name |-> "MyQuery",
       loc |-> [start |-> 1, end |-> MaxPos]]>>

\* The callback of find (lines 144-152) asking for the end to lie beyond.
ContainsStrictEnd(definition, position) ==
    /\ definition.loc # NoLoc
    /\ definition.loc.start <= position.start
    /\ definition.loc.end > position.end

\* The callback of find (lines 144-152).
Contains(definition, position) ==
    /\ definition.loc # NoLoc
    /\ definition.loc.start <= position.start
    /\ definition.loc.end >= position.end

\* Array.prototype.find from element i on: the index of the first element
\* the callback accepts, 0 for undefined.
RECURSIVE FindFrom(_, _, _)
FindFrom(definitions, i, position) ==
    IF i > Len(definitions) THEN 0
    ELSE IF Contains(definitions[i], position) THEN i
    ELSE FindFrom(definitions, i + 1, position)

\* Lines 159-163: the parts of the selector.
SelectorOf(def) ==
    [operationKind |->
        IF def.kind = "OperationDefinition" THEN def.operation
        ELSE IF def.kind = "FragmentDefinition" THEN "fragment"
        ELSE "unknown",
     operationName |->
        IF def.kind \in {"OperationDefinition", "FragmentDefinition"} /\ def.name # NoName
        THEN def.name
        ELSE "unknown"]

NoSelector == [operationKind |-> "", operationName |-> ""]
NoPosition == [start |-> -1, end |-> -1]
Inspection(outcome, position, index, selector, scrolled) ==
    [outcome |-> outcome, position |-> position, index |-> index,
     selector |-> selector, scrolled |-> scrolled]
NotInspected == Inspection("none", NoPosition, 0, NoSelector, FALSE)

\* The handler, with the position lines 134-142 work out of the click and
\* whether the explorer holds an element for the selector.
HandleInspectOperation(position, present) ==
    /\ inspected' =
          IF stateQuery = BadQuery
          THEN Inspection("threw", position, 0, NoSelector, FALSE)
          ELSE LET def == FindFrom(stateQuery, 1, position)
               IN  IF def = 0
                   THEN Inspection("notfound", position, 0, NoSelector, FALSE)
                   ELSE Inspection("found", position, def,
                                   SelectorOf(stateQuery[def]), present)
    /\ UNCHANGED <<stateQuery, dispatchVars, streamVars>>

----------------------------------------------------------------------------
(* Specifications *)

DispatchInit ==
    /\ params = NoParams
    /\ pc = "idle"
    /\ fetches = 0
    /\ settled = 0
    /\ result = NoValue
    /\ body = NoBody

StreamInit ==
    /\ subs = <<>>
    /\ registered = {}
    /\ disposed = FALSE

ResolverInit ==
    /\ stateQuery = DEFAULT_QUERY
    /\ inspected = NotInspected

\* The module is loaded (the shared client of line 16 exists) and the
\* component is constructed (line 110); nothing has been dispatched.
Init == DispatchInit /\ StreamInit /\ ResolverInit

\* The dispatcher: one fetcher call at a time is followed to its end, and
\* the Subscribable it may return is subscribed to.
Next ==
    \/ \E p \in FetcherParams : Fetcher(p)
    \/ FetchRejects
    \/ FetchResponds
    \/ TextRejects
    \/ \E b \in Bodies : TextResolves(b)
    \/ ParseBody
    \/ \E args \in ObserverArgs : Subscribe(args)

Spec == Init /\ [][Next]_vars

\* The duplex channel, from the state in which fetcher has returned the
\* Subscribable of a subscription.
SubscriptionParams ==
    [query |-> <<[kw |-> "subscription", name |-> "A"]>>, operationName |-> NULL]

StreamStart ==
    /\ params = SubscriptionParams
    /\ pc = "subscribable"
    /\ fetches = 0
    /\ settled = 0
    /\ result = NoValue
    /\ body = NoBody
    /\ StreamInit
    /\ ResolverInit

NextStream ==
    \/ \E args \in ObserverArgs : Subscribe(args)
    \/ \E s \in 1..MaxSubs, m \in Messages : ChannelNext(s, m)
    \/ \E s \in 1..MaxSubs : ChannelComplete(s)
    \/ \E s \in 1..MaxSubs, err \in ChannelErrors : ChannelError(s, err)
    \/ \E s \in 1..MaxSubs : Unsubscribe(s)

SpecStream == StreamStart /\ [][NextStream]_vars

\* The resolver: state.query is the default query or what it has been
\* edited to (_handleEditQuery, line 169), and definitions are looked up.
ResolverStart ==
    /\ DispatchInit
    /\ StreamInit
    /\ stateQuery \in {DEFAULT_QUERY} \cup EditedQueries
    /\ inspected = NotInspected

NextResolver ==
    \E position \in Positions, present \in BOOLEAN :
        HandleInspectOperation(position, present)

SpecResolver == ResolverStart /\ [][NextResolver]_vars

----------------------------------------------------------------------------
(* What the claims are stated in *)

Dispatched == pc # "idle"
Parsed == parse(params.query)
Operations ==
    {i \in 1..Len(Parsed.definitions) :
        Parsed.definitions[i].kind = "OperationDefinition"}
OnlyOperation == Parsed.definitions[CHOOSE i \in Operations : TRUE]

\* The observer a subscribe call was given, whichever way it was given.
ObserverOf(args) ==
    IF Len(args) = 1
    THEN args[1].value
    ELSE [next |-> args[1], complete |-> args[2], error |-> args[3]]

HasToken(string, token) == \E i \in 1..Len(string) : string[i] = token
EndsWith(string, suffix) ==
    /\ Len(string) >= Len(suffix)
    /\ SubSeq(string, Len(string) - Len(suffix) + 1, Len(string)) = suffix

IsNextEvent(e) == e.type = "next"
NextEvents(s) == SelectSeq(subs[s].received, IsNextEvent)
NextCalls(s) ==
    LET IsNextCall(c) == c.fn = ObserverOf(subs[s].args).next.value
    IN  SelectSeq(subs[s].calls, IsNextCall)

----------------------------------------------------------------------------
(* C1 *)

\* C1, as claimed: when the channel reports a connection closure to a
\* subscription's error handler, the observer's error callback gets an Error
\* whose message holds the closure code and, after a colon, the reason when
\* there is one, and no colon segment when there is none.
C1_ClosureMessageHasCodeAndReason ==
    \A s \in 1..Len(subs) : \A i \in 1..Len(subs[s].received) :
        LET event == subs[s].received[i]
            call == subs[s].calls[i]
        IN  (event.type = "error" /\ event.payload.type = "CloseEvent") =>
                /\ call.fn = "onError"
                /\ call.arg.type = "Error"
                /\ HasToken(call.arg.message, ToString(event.payload.code))
                /\ IF event.payload.reason # <<>>
                   THEN EndsWith(call.arg.message, <<": ">> \o event.payload.reason)
                   ELSE ~HasToken(call.arg.message, ": ")

----------------------------------------------------------------------------
(* C2 *)

----------------------------------------------------------------------------
(* C3 *)

\* C3: for every subscription, the calls of the observer's next are, one
\* for one and in order, the messages the channel delivered to it.
C3_EveryMessageOnceInOrder ==
    \A s \in 1..Len(subs) :
        /\ Len(NextCalls(s)) = Len(NextEvents(s))
        /\ \A i \in 1..Len(NextEvents(s)) :
              NextCalls(s)[i].arg = NextEvents(s)[i].payload

\* A subscription that has been delivered m1 and then m2.
C3_Witness ==
    \E s \in 1..Len(subs) :
        /\ Len(NextEvents(s)) >= 2
        /\ NextEvents(s)[1].payload = Message("m1")
        /\ NextEvents(s)[2].payload = Message("m2")
        /\ Len(NextCalls(s)) = 2

----------------------------------------------------------------------------
(* C4 *)

\* C4: a call of unsubscribe on a handle takes that one request off the
\* shared client, leaves the client undisposed and every other subscription
\* as it was, and a second call on the same handle changes nothing.
C4_UnsubscribeDeregistersOnly ==
    [][\A s \in 1..Len(subs) :
          (subs'[s].unsubscribeCalls = subs[s].unsubscribeCalls + 1) =>
              /\ registered' = registered \ {s}
              /\ ~disposed /\ ~disposed'
              /\ \A t \in (1..Len(subs)) \ {s} : subs'[t] = subs[t]
              /\ subs'[s].received = subs[s].received
              /\ subs'[s].calls = subs[s].calls
              /\ (subs[s].unsubscribeCalls >= 1 => registered' = registered)]_vars

\* unsubscribe has been called twice on one handle while another
\* subscription is still registered and has been delivered an event.
C4_Witness ==
    \E s, t \in 1..Len(subs) :
        /\ s # t
        /\ subs[s].unsubscribeCalls = 2
        /\ t \in registered
        /\ Len(subs[t].received) >= 1

----------------------------------------------------------------------------
(* C5 *)

IsQueryOrMutation ==
    /\ ~Parsed.threw
    /\ \E i \in Operations :
          /\ Parsed.definitions[i].operation \in {"query", "mutation"}
          /\ \/ params.operationName = NULL /\ Cardinality(Operations) = 1
             \/ /\ params.operationName # NULL
                /\ Parsed.definitions[i].name = params.operationName
                /\ \A j \in Operations :
                      Parsed.definitions[j].name = params.operationName => i <= j

\* C5: a dispatch of a query or mutation makes exactly one fetch call, and
\* its promise settles at most once, and has settled exactly once when it
\* is resolved or rejected; a rejection carries the transport's error.
C5_OneRequestOneResult ==
    (Dispatched /\ IsQueryOrMutation)
        => /\ pc \in Stateless
           /\ fetches = 1
           /\ settled = IF pc \in {"resolved", "rejected"} THEN 1 ELSE 0
           /\ (pc = "rejected" => result \in {FetchFailed, BodyFailed})
           /\ (pc = "resolved" => result.type \notin {"none", "TypeError"})

\* A mutation whose fetch failed: one request was made and the promise is
\* rejected with fetch's error.
C5_Witness ==
    /\ IsQueryOrMutation
    /\ OnlyOperation.operation = "mutation"
    /\ pc = "rejected"
    /\ result = FetchFailed
    /\ fetches = 1

----------------------------------------------------------------------------
(* C6 *)

\* C6, as claimed: once the body has been received the dispatch resolves,
\* with the parsed value when the body parses and with the raw text when it
\* does not, and the result is a string exactly when it is the degraded one.
C6_DegradedToldByType ==
    /\ (body # NoBody => pc \in {"text", "resolved"})
    /\ (pc = "resolved" =>
          /\ result = IF JSONparse(body).threw
                      THEN Value("string", body)
                      ELSE JSONparse(body).value
          /\ (result.type = "string" <=> JSONparse(body).threw))

\* C6, amended: once the body has been received the dispatch resolves and
\* never rejects, with the parsed value when the body parses and with the
\* raw text when it does not; the type tells the two apart only when the
\* parsed value is not itself a string.
C6_ParsedOrRawText ==
    /\ (body # NoBody => pc \in {"text", "resolved"})
    /\ (pc = "resolved" =>
          /\ result = IF JSONparse(body).threw
                      THEN Value("string", body)
                      ELSE JSONparse(body).value
          /\ (JSONparse(body).threw => result.type = "string")
          /\ (~JSONparse(body).threw /\ JSONparse(body).value.type # "string"
                => result.type # "string"))

\* The body "not json" was received and the promise resolved with it.
C6_Witness ==
    /\ pc = "resolved"
    /\ body = "not json"
    /\ result = Value("string", "not json")

----------------------------------------------------------------------------
(* C7 *)

\* C7: when the document does not parse, fetcher throws the parse error and
\* uses neither transport.
C7_ParseErrorNoTransport ==
    (Dispatched /\ Parsed.threw)
        => /\ pc = "threw"
           /\ result = SyntaxError
           /\ fetches = 0
           /\ settled = 0
           /\ subs = <<>>
           /\ registered = {}

\* A text whose second chunk is no definition was dispatched and thrown on.
C7_Witness ==
    /\ pc = "threw"
    /\ Len(params.query) = 2
    /\ params.query[1].kw = "subscription"
    /\ params.query[2].kw = "}"

----------------------------------------------------------------------------
(* C8 *)

\* C8: for a document with exactly one operation, which has a name, fetcher
\* called with operationName = null and called with that name take the same
\* route, the one of that operation's kind.
C8_NullNameSameAsExplicit ==
    (/\ Dispatched
     /\ ~Parsed.threw
     /\ Cardinality(Operations) = 1
     /\ OnlyOperation.name # NoName
     /\ params.operationName \in {NULL, OnlyOperation.name})
        => IF OnlyOperation.operation = "subscription"
           THEN pc = "subscribable" /\ fetches = 0
           ELSE pc \in Stateless /\ fetches = 1 /\ subs = <<>>

\* A fragment and one named subscription, dispatched without a name, gave a
\* Subscribable.
C8_Witness ==
    /\ pc = "subscribable"
    /\ params.operationName = NULL
    /\ Len(Parsed.definitions) = 2
    /\ Cardinality(Operations) = 1
    /\ OnlyOperation.name = "A"

----------------------------------------------------------------------------
(* C9 *)

Matching ==
    {i \in 1..Len(stateQuery) :
        /\ stateQuery[i].loc # NoLoc
        /\ stateQuery[i].loc.start <= inspected.position.start
        /\ stateQuery[i].loc.end >= inspected.position.end}

Spanning(start, end) ==
    [kind |-> "OperationDefinition", operation |-> "query", name |-> NoName,
     loc |-> [start |-> start, end |-> end]]

\* C9: the lookup finds the first definition, in document order, whose span
\* contains the position, passing over definitions without a span, and
\* finds nothing when no span contains it; with spans [0,20) and [21,40),
\* position {25,30} gives the second and {50,55} gives nothing.
C9_FirstContainingDefinition ==
    /\ inspected.outcome \in {"found", "notfound"} =>
          IF Matching = {}
          THEN inspected.outcome = "notfound"
          ELSE /\ inspected.outcome = "found"
               /\ inspected.index \in Matching
               /\ \A i \in Matching : inspected.index <= i
    /\ FindFrom(<<Spanning(0, 20), Spanning(21, 40)>>, 1, [start |-> 25, end |-> 30]) = 2
    /\ FindFrom(<<Spanning(0, 20), Spanning(21, 40)>>, 1, [start |-> 50, end |-> 55]) = 0

\* The second definition was found after a first one without a span.
C9_Witness ==
    /\ inspected.outcome = "found"
    /\ inspected.index = 2
    /\ stateQuery[1].loc = NoLoc
    /\ stateQuery[2].loc.end = inspected.position.end

----------------------------------------------------------------------------
(* C10 *)

\* C10: the sink of a subscription is the observer it was given, in either
\* form, and two subscriptions given the same callbacks that were delivered
\* the same events have made the same calls.
C10_BothFormsSameCalls ==
    /\ \A s \in 1..Len(subs) : subs[s].sink = ObserverOf(subs[s].args)
    /\ \A s, t \in 1..Len(subs) :
          (/\ ObserverOf(subs[s].args) = ObserverOf(subs[t].args)
           /\ subs[s].received = subs[t].received)
              => subs[s].calls = subs[t].calls

\* A positional and an object subscription were both delivered a message
\* and then a completion.
C10_Witness ==
    \E s, t \in 1..Len(subs) :
        /\ subs[s].args = PositionalArgs
        /\ subs[t].args = ObjectArgs
        /\ subs[s].received = subs[t].received
        /\ Len(subs[s].received) = 2
        /\ subs[s].received[2].type = "complete"
====
